---- MODULE Spec2Model ----
(***************************************************************************)
(* on-this-day: a command-line tool that fetches Wikipedia's "On this day" *)
(* feed with one HTTP GET, collects the events of the response into one    *)
(* vector, selects the oldest, the newest or a random event and prints it. *)
(* The model follows src/main.rs step by step: one action per numbered     *)
(* step of main().  The date (month, day) only decorates the URL and the   *)
(* printed header and is left out of the lines' contents.                  *)
(***************************************************************************)
EXTENDS Integers, Sequences, FiniteSets, TLC

\* ---------------------------------------------------------------- bounds
\* Largest number of events carried by one response body.
MaxRecords == 2
\* Years of the events range over -MaxYear .. MaxYear (i32 in the source).
MaxYear == 1
\* Cap on the number of GET requests a run may send.
MaxRequests == 2

Years == (0 - MaxYear)..MaxYear
\* The text of an event is carried along and printed, never inspected.
Texts == {"A"}

\* ------------------------------------------------------------ data model
\* Option<i32>
NoYear == [some |-> FALSE, val |-> 0]
SomeYear(y) == [some |-> TRUE, val |-> y]
OptYears == {NoYear} \cup {SomeYear(y) : y \in Years}

\* struct Event { text: String, year: Option<i32> }
Event == [text : Texts, year : OptYears]

\* Option<Vec<Event>>
NoVec == [some |-> FALSE, items |-> <<>>]
SomeVec(s) == [some |-> TRUE, items |-> s]

\* The fields of struct OnThisDayResponse, in declaration order.
FieldNames == <<"selected", "births", "deaths", "holidays", "events">>
FieldSet == {FieldNames[i] : i \in 1..Len(FieldNames)}

\* enum EventType
EventType == {"All", "Selected", "Births", "Deaths", "Holidays", "Events"}

\* format!("{}", event_type).to_lowercase(): Display prints the Debug name.
ToLowercase(t) ==
    CASE t = "All" -> "all"
      [] t = "Selected" -> "selected"
      [] t = "Births" -> "births"
      [] t = "Deaths" -> "deaths"
      [] t = "Holidays" -> "holidays"
      [] t = "Events" -> "events"

\* The command line, made of the options struct Args declares: which flags
\* are given and the value of --event-type ("" when the option is not given,
\* "bogus" for a value outside the enum).
TypeValues == {"", "all", "selected", "births", "deaths", "holidays", "events", "bogus"}
CommandLines == [oldest : BOOLEAN, newest : BOOLEAN, event_type : TypeValues]

\* value_enum parsing of --event-type, default_value_t = EventType::All.
ParseEventType(v) ==
    CASE v = "" -> "All"
      [] v = "all" -> "All"
      [] v = "selected" -> "Selected"
      [] v = "births" -> "Births"
      [] v = "deaths" -> "Deaths"
      [] v = "holidays" -> "Holidays"
      [] v = "events" -> "Events"
      [] OTHER -> "Invalid"

\* Variant: the flags declared without conflicts_with.
ConflictsNever(c) == FALSE

\* conflicts_with = "newest" / conflicts_with = "oldest"
Conflicts(c) == c.oldest /\ c.newest

\* struct Args before Args::parse() has run.
NoArgs == [oldest |-> FALSE, newest |-> FALSE, event_type |-> "All"]

\* HTTP statuses the server may answer with.
StatusCodes == {200, 301, 403, 500}
\* Variant: only server errors count as failures.
is_success_below_500(s) == s >= 200 /\ s < 500

\* StatusCode::is_success
is_success(s) == s >= 200 /\ s < 300

\* Variant: an Err returned from main is swallowed.
ExitOfZero(r) == 0

\* Exit status of main's Result<(), Box<dyn Error>>.
ExitOf(r) == IF r = "Ok" THEN 0 ELSE 1

\* Output lines.
OutLine(kind, text, year) == [kind |-> kind, text |-> text, year |-> year]
ErrLine(kind, status) == [kind |-> kind, status |-> status]

\* ------------------------------------------------------------- variables
VARIABLES
    pc,                 \* position in main()
    argv,               \* the command line of the run
    args,               \* struct Args
    url,                \* the category segment of the request URL
    requests,           \* number of GET requests sent
    status,             \* HTTP status of the response, 0 before it arrives
    api_data,           \* OnThisDayResponse, by field name
    decoded,            \* whether api_data holds a deserialized response
    events_to_process,  \* Vec<Event>
    selected_event,     \* Option<&Event>: index into events_to_process, 0 = None
    stdout,             \* lines printed to standard output
    stderr,             \* lines printed to standard error
    outcome,            \* how the run ended
    exit_status         \* process exit status, -1 while running

vars == <<pc, argv, args, url, requests, status, api_data, decoded,
          events_to_process, selected_event, stdout, stderr, outcome, exit_status>>

EmptyResponse == [f \in FieldSet |-> NoVec]

Init ==
    /\ pc = "parse"
    /\ argv \in CommandLines
    /\ args = NoArgs
    /\ url = ""
    /\ requests = 0
    /\ status = 0
    /\ api_data = EmptyResponse
    /\ decoded = FALSE
    /\ events_to_process = <<>>
    /\ selected_event = 0
    /\ stdout = <<>>
    /\ stderr = <<>>
    /\ outcome = "running"
    /\ exit_status = -1

\* ------------------------------------------------------- pure functions
\* Ord for Option<i32>: None is less than every Some; -1, 0, 1.
OptCmp(a, b) ==
    IF a.some /\ b.some
    THEN (IF a.val < b.val THEN -1 ELSE IF a.val > b.val THEN 1 ELSE 0)
    ELSE IF a.some THEN 1 ELSE IF b.some THEN -1 ELSE 0

\* Variant: the filter keeps every event.
HasYearAll(e) == TRUE

\* .filter(|e| e.year.is_some())
HasYear(e) == e.year.some

\* The indexes of the list, in iteration order.
Indexes(list) == [i \in 1..Len(list) |-> i]

\* Variant: min_by_key / max_by_key run on the unfiltered iterator.
UnfilteredIndexes(list) == [i \in 1..Len(list) |-> i]

\* The indexes the filtered iterator yields, in iteration order.
YearedIndexes(list) ==
    LET Keep(i) == HasYear(list[i]) IN SelectSeq(Indexes(list), Keep)

\* core::cmp::min_by on the keys: the earlier element wins unless Greater.
MinOf(list, i, j) == IF OptCmp(list[i].year, list[j].year) = 1 THEN j ELSE i
\* Variant: max_by keeps the earlier of two equal elements.
MaxOfFirst(list, i, j) == IF OptCmp(list[i].year, list[j].year) = -1 THEN j ELSE i

\* core::cmp::max_by on the keys: the later element wins unless Greater.
MaxOf(list, i, j) == IF OptCmp(list[i].year, list[j].year) = 1 THEN i ELSE j

RECURSIVE FoldMin(_, _, _)
FoldMin(list, idxs, best) ==
    IF idxs = <<>> THEN best
    ELSE FoldMin(list, Tail(idxs), MinOf(list, best, Head(idxs)))

RECURSIVE FoldMax(_, _, _)
FoldMax(list, idxs, best) ==
    IF idxs = <<>> THEN best
    ELSE FoldMax(list, Tail(idxs), MaxOf(list, best, Head(idxs)))

\* Iterator::min_by_key(|event| event.year): None on an empty iterator.
MinByKey(list, idxs) ==
    IF idxs = <<>> THEN 0 ELSE FoldMin(list, Tail(idxs), Head(idxs))
\* Iterator::max_by_key(|event| event.year)
MaxByKey(list, idxs) ==
    IF idxs = <<>> THEN 0 ELSE FoldMax(list, Tail(idxs), Head(idxs))

\* slice::choose: None on an empty slice, else any element.
ChooseIndexes(list) == IF list = <<>> THEN {0} ELSE 1..Len(list)

\* if let Some(mut e) = field { events_to_process.append(&mut e); }
AppendField(acc, field) == IF field.some THEN acc \o field.items ELSE acc

\* Variant: the appends in another order (holidays before births).
FlattenReordered(d) ==
    AppendField(AppendField(AppendField(AppendField(AppendField(<<>>,
        d["selected"]), d["holidays"]), d["deaths"]), d["births"]), d["events"])

\* Step 6: the five appends in source order.
Flatten(d) ==
    AppendField(AppendField(AppendField(AppendField(AppendField(<<>>,
        d["selected"]), d["births"]), d["deaths"]), d["holidays"]), d["events"])

\* --------------------------------------------------------- response body
SeqsUpTo(n) == UNION {[1..k -> Event] : k \in 0..n}
OptVecs(n) == {NoVec} \cup {SomeVec(s) : s \in SeqsUpTo(n)}

\* A JSON object: the keys present mapped to their arrays of events.
JsonObject(d) == [k \in {f \in FieldSet : d[f].some} |-> d[k].items]

\* serde: a missing key of an Option field deserializes to None.
Deserialize(obj) ==
    [f \in FieldSet |-> IF f \in DOMAIN obj THEN SomeVec(obj[f]) ELSE NoVec]

\* ---------------------------------------------------------------- actions
\* Step 1, Args::parse(), conflicting flags or a value outside the enum:
\* clap prints the usage error and exits 2.
ParseArgsUsageError ==
    /\ pc = "parse"
    /\ Conflicts(argv) \/ ParseEventType(argv.event_type) = "Invalid"
    /\ stderr' = Append(stderr, ErrLine("usage", 0))
    /\ outcome' = "usage"
    /\ exit_status' = 2
    /\ pc' = "done"
    /\ UNCHANGED <<argv, args, url, requests, status, api_data, decoded,
                   events_to_process, selected_event, stdout>>

\* Step 1, Args::parse() succeeds.
ParseArgsOk ==
    /\ pc = "parse"
    /\ ~Conflicts(argv)
    /\ ParseEventType(argv.event_type) # "Invalid"
    /\ args' = [oldest |-> argv.oldest, newest |-> argv.newest,
                event_type |-> ParseEventType(argv.event_type)]
    /\ pc' = "url"
    /\ UNCHANGED <<argv, url, requests, status, api_data, decoded,
                   events_to_process, selected_event, stdout, stderr,
                   outcome, exit_status>>

\* Steps 2 and 3: the URL for the event type, and the fetching notice.
BuildUrl ==
    /\ pc = "url"
    /\ url' = ToLowercase(args.event_type)
    /\ stdout' = Append(stdout, OutLine("fetching", ToLowercase(args.event_type), NoYear))
    /\ pc' = "send"
    /\ UNCHANGED <<argv, args, requests, status, api_data, decoded,
                   events_to_process, selected_event, stderr, outcome, exit_status>>

\* Step 4: client.get(&url).header(..).send()
SendRequest ==
    /\ pc = "send"
    /\ requests < MaxRequests
    /\ requests' = requests + 1
    /\ pc' = "await"
    /\ UNCHANGED <<argv, args, url, status, api_data, decoded,
                   events_to_process, selected_event, stdout, stderr,
                   outcome, exit_status>>

\* .await? returns Err: main returns it, the runtime prints it and exits 1.
TransportFailure ==
    /\ pc = "await"
    /\ stderr' = Append(stderr, ErrLine("Error", 0))
    /\ outcome' = "Err_send"
    /\ exit_status' = ExitOf("Err_send")
    /\ pc' = "done"
    /\ UNCHANGED <<argv, args, url, requests, status, api_data, decoded,
                   events_to_process, selected_event, stdout>>

\* .await? returns the response with some status.
ReceiveResponse ==
    /\ pc = "await"
    /\ \E s \in StatusCodes : status' = s
    /\ pc' = "check"
    /\ UNCHANGED <<argv, args, url, requests, api_data, decoded,
                   events_to_process, selected_event, stdout, stderr,
                   outcome, exit_status>>

\* Variant: a failed status is reported and the request sent again.
CheckStatusRetry ==
    /\ pc = "check"
    /\ IF ~is_success(status)
       THEN /\ stderr' = Append(stderr, ErrLine("fetch_failed", status))
            /\ pc' = "send"
       ELSE /\ pc' = "decode"
            /\ UNCHANGED stderr
    /\ UNCHANGED <<argv, args, url, requests, status, api_data, decoded,
                   events_to_process, selected_event, stdout, outcome, exit_status>>

\* if !response.status().is_success() { eprintln!(..); return Ok(()); }
CheckStatus ==
    /\ pc = "check"
    /\ IF ~is_success(status)
       THEN /\ stderr' = Append(stderr, ErrLine("fetch_failed", status))
            /\ outcome' = "Ok"
            /\ exit_status' = ExitOf("Ok")
            /\ pc' = "done"
       ELSE /\ pc' = "decode"
            /\ UNCHANGED <<stderr, outcome, exit_status>>
    /\ UNCHANGED <<argv, args, url, requests, status, api_data, decoded,
                   events_to_process, selected_event, stdout>>

\* Step 5: response.json().await? fails on malformed JSON or a wrong shape.
DecodeFailure ==
    /\ pc = "decode"
    /\ stderr' = Append(stderr, ErrLine("Error", 0))
    /\ outcome' = "Err_json"
    /\ exit_status' = ExitOf("Err_json")
    /\ pc' = "done"
    /\ UNCHANGED <<argv, args, url, requests, status, api_data, decoded,
                   events_to_process, selected_event, stdout>>

\* Step 5: response.json().await? succeeds on a body of the schema.
Decode ==
    /\ pc = "decode"
    /\ \E sel \in OptVecs(MaxRecords) :
       \E bir \in OptVecs(MaxRecords - Len(sel.items)) :
       \E dea \in OptVecs(MaxRecords - Len(sel.items) - Len(bir.items)) :
       \E hol \in OptVecs(MaxRecords - Len(sel.items) - Len(bir.items) - Len(dea.items)) :
       \E eve \in OptVecs(MaxRecords - Len(sel.items) - Len(bir.items)
                            - Len(dea.items) - Len(hol.items)) :
          api_data' = Deserialize(JsonObject(
              [f \in FieldSet |->
                  CASE f = "selected" -> sel
                    [] f = "births" -> bir
                    [] f = "deaths" -> dea
                    [] f = "holidays" -> hol
                    [] f = "events" -> eve]))
    /\ decoded' = TRUE
    /\ pc' = "flatten"
    /\ UNCHANGED <<argv, args, url, requests, status,
                   events_to_process, selected_event, stdout, stderr,
                   outcome, exit_status>>

\* Step 6: collect the events of every field into events_to_process.
Collect ==
    /\ pc = "flatten"
    /\ events_to_process' = Flatten(api_data)
    /\ pc' = "empty"
    /\ UNCHANGED <<argv, args, url, requests, status, api_data, decoded,
                   selected_event, stdout, stderr, outcome, exit_status>>

\* Variant: the emptiness check is missing.
CheckEmptySkipped ==
    /\ pc = "empty"
    /\ pc' = "select"
    /\ UNCHANGED <<argv, args, url, requests, status, api_data, decoded,
                   events_to_process, selected_event, stdout, stderr,
                   outcome, exit_status>>

\* if events_to_process.is_empty() { println!(..); return Ok(()); }
CheckEmpty ==
    /\ pc = "empty"
    /\ IF events_to_process = <<>>
       THEN /\ stdout' = Append(stdout, OutLine("no_events", "", NoYear))
            /\ outcome' = "Ok"
            /\ exit_status' = ExitOf("Ok")
            /\ pc' = "done"
       ELSE /\ pc' = "select"
            /\ UNCHANGED <<stdout, outcome, exit_status>>
    /\ UNCHANGED <<argv, args, url, requests, status, api_data, decoded,
                   events_to_process, selected_event, stderr>>

\* Step 7, args.oldest
SelectOldest ==
    /\ pc = "select"
    /\ args.oldest
    /\ selected_event' = MinByKey(events_to_process, YearedIndexes(events_to_process))
    /\ pc' = "present"
    /\ UNCHANGED <<argv, args, url, requests, status, api_data, decoded,
                   events_to_process, stdout, stderr, outcome, exit_status>>

\* Step 7, args.newest
SelectNewest ==
    /\ pc = "select"
    /\ ~args.oldest
    /\ args.newest
    /\ selected_event' = MaxByKey(events_to_process, YearedIndexes(events_to_process))
    /\ pc' = "present"
    /\ UNCHANGED <<argv, args, url, requests, status, api_data, decoded,
                   events_to_process, stdout, stderr, outcome, exit_status>>

\* Step 7, neither flag: a random event.
SelectRandom ==
    /\ pc = "select"
    /\ ~args.oldest
    /\ ~args.newest
    /\ \E i \in ChooseIndexes(events_to_process) : selected_event' = i
    /\ pc' = "present"
    /\ UNCHANGED <<argv, args, url, requests, status, api_data, decoded,
                   events_to_process, stdout, stderr, outcome, exit_status>>

\* Step 8: print the selected event, or the fallback diagnostic; Ok(()).
Present ==
    /\ pc = "present"
    /\ IF selected_event # 0
       THEN LET event == events_to_process[selected_event] IN
            /\ stdout' = stdout \o
                  << OutLine("header", "", NoYear),
                     IF event.year.some
                     THEN OutLine("year_line", event.text, event.year)
                     ELSE OutLine("text_line", event.text, NoYear) >>
            /\ UNCHANGED stderr
       ELSE /\ stderr' = Append(stderr, ErrLine("could_not_select", 0))
            /\ UNCHANGED stdout
    /\ outcome' = "Ok"
    /\ exit_status' = ExitOf("Ok")
    /\ pc' = "done"
    /\ UNCHANGED <<argv, args, url, requests, status, api_data, decoded,
                   events_to_process, selected_event>>

Next ==
    \/ ParseArgsUsageError
    \/ ParseArgsOk
    \/ BuildUrl
    \/ SendRequest
    \/ TransportFailure
    \/ ReceiveResponse
    \/ CheckStatus
    \/ DecodeFailure
    \/ Decode
    \/ Collect
    \/ CheckEmpty
    \/ SelectOldest
    \/ SelectNewest
    \/ SelectRandom
    \/ Present

Spec == Init /\ [][Next]_vars

\* ------------------------------------------------------------ properties
\* The events have been collected into events_to_process.
Flattened == pc \in {"empty", "select", "present"} \/ (pc = "done" /\ decoded)
\* Step 7 has run on a non-empty list.
Selected ==
    \/ pc = "present"
    \/ (pc = "done" /\ decoded /\ events_to_process # <<>>)
\* The positions of the events that carry a year.
Defined == {i \in 1..Len(events_to_process) : events_to_process[i].year.some}
YearAt(i) == events_to_process[i].year.val
FetchingOnly == Len(stdout) = 1 /\ stdout[1].kind = "fetching"
Non2xx == status # 0 /\ (status < 200 \/ status > 299)

\* C1: when at least one event carries a year, --oldest selects an event
\* with a year that is <= every year in the list and --newest one that is
\* >= every year; an event without a year is never selected under a flag.
C1_ExtremalYear ==
    (Selected /\ (args.oldest \/ args.newest)) =>
        /\ selected_event # 0 => selected_event \in Defined
        /\ Defined # {} =>
              /\ selected_event \in Defined
              /\ args.oldest =>
                    \A i \in Defined : YearAt(selected_event) <= YearAt(i)
              /\ args.newest =>
                    \A i \in Defined : YearAt(selected_event) >= YearAt(i)

C1_Witness ==
    /\ Selected
    /\ args.oldest
    /\ Len(events_to_process) = 2
    /\ Defined = {2}
    /\ selected_event = 2

\* C2 as stated: on a tie for the minimum (--oldest) or the maximum
\* (--newest) year the first of the tied events is selected.
C2_FirstOccurrenceBoth ==
    (Selected /\ (args.oldest \/ args.newest) /\ selected_event # 0) =>
        \A i \in Defined :
            YearAt(i) = YearAt(selected_event) => selected_event <= i

\* C2 amended: on a tie --oldest selects the first of the events sharing
\* the minimum year, and --newest selects the last of the events sharing
\* the maximum year.
C2_FirstOldestLastNewest ==
    (Selected /\ (args.oldest \/ args.newest) /\ selected_event # 0) =>
        \A i \in Defined :
            YearAt(i) = YearAt(selected_event) =>
                IF args.oldest THEN selected_event <= i ELSE selected_event >= i

C2_Witness ==
    /\ Selected
    /\ args.newest
    /\ Defined = {1, 2}
    /\ YearAt(1) = YearAt(2)
    /\ selected_event = 2

\* C3 as stated: with a specific category requested, the flattened list is
\* exactly the records of that category's bucket of the response.
C3_OnlyRequestedBucket ==
    (Flattened /\ args.event_type # "All") =>
        events_to_process =
            (IF api_data[ToLowercase(args.event_type)].some
             THEN api_data[ToLowercase(args.event_type)].items
             ELSE <<>>)

\* Number of records the k-th field contributes, and the number
\* contributed by the fields before it.
LenOf(k) ==
    IF api_data[FieldNames[k]].some THEN Len(api_data[FieldNames[k]].items) ELSE 0
RECURSIVE Offset(_)
Offset(k) == IF k = 1 THEN 0 ELSE Offset(k - 1) + LenOf(k - 1)

\* C4: with category all, the flattened list is the concatenation of the
\* buckets present, in the order selected, births, deaths, holidays,
\* events, each in its own order, nothing dropped or duplicated.
C4_AllConcatenatesInOrder ==
    (Flattened /\ args.event_type = "All") =>
        /\ Len(events_to_process) = Offset(Len(FieldNames) + 1)
        /\ \A k \in 1..Len(FieldNames) : \A i \in 1..LenOf(k) :
              events_to_process[Offset(k) + i] = api_data[FieldNames[k]].items[i]

C4_Witness ==
    /\ Flattened
    /\ args.event_type = "All"
    /\ api_data["births"] = SomeVec(<<[text |-> "A", year |-> SomeYear(1)]>>)
    /\ api_data["holidays"] = SomeVec(<<[text |-> "A", year |-> NoYear]>>)
    /\ events_to_process = <<[text |-> "A", year |-> SomeYear(1)],
                             [text |-> "A", year |-> NoYear]>>

C6_Non2xxEndsWithZero ==
    Non2xx =>
        /\ pc \in {"check", "done"}
        /\ ~decoded
        /\ events_to_process = <<>>
        /\ selected_event = 0
        /\ FetchingOnly
        /\ pc = "done" =>
              /\ stderr = <<ErrLine("fetch_failed", status)>>
              /\ exit_status = 0

C6_Witness ==
    /\ pc = "done"
    /\ status = 403
    /\ exit_status = 0
    /\ stderr = <<ErrLine("fetch_failed", 403)>>

\* C7: a transport failure or a decode failure ends the run with a
\* non-zero exit status, nothing selected and nothing but the fetching
\* notice printed; every run ending without a usage, transport or decode
\* failure exits with status 0.
C7_FatalFailuresNonZero ==
    /\ outcome \in {"Err_send", "Err_json"} =>
          /\ pc = "done"
          /\ exit_status > 0
          /\ ~decoded
          /\ selected_event = 0
          /\ FetchingOnly
    /\ (pc = "done" /\ outcome \notin {"usage", "Err_send", "Err_json"}) =>
          exit_status = 0

C7_Witness ==
    /\ pc = "done"
    /\ outcome = "Err_json"
    /\ status = 200
    /\ exit_status = 1

\* C8: when the flattened list is empty, whatever the category and the
\* flags, the run prints "no events found" to standard output, selects
\* nothing, prints no event line and no diagnostic, and exits with 0.
C8_EmptyListNoEvents ==
    (decoded /\ Flattened /\ events_to_process = <<>>) =>
        /\ pc \in {"empty", "done"}
        /\ selected_event = 0
        /\ stderr = <<>>
        /\ pc = "done" =>
              /\ Len(stdout) = 2
              /\ stdout[1].kind = "fetching"
              /\ stdout[2].kind = "no_events"
              /\ exit_status = 0

C8_Witness ==
    /\ pc = "done"
    /\ decoded
    /\ api_data = EmptyResponse
    /\ args.oldest
    /\ args.event_type = "Births"
    /\ stdout[Len(stdout)].kind = "no_events"

\* C9: on a non-empty list in which no event carries a year, --oldest and
\* --newest select nothing, print no event line, write the could-not-select
\* diagnostic to standard error and exit with 0; without a flag a record
\* is always selected.
C9_NoYearNoSelection ==
    (Selected /\ Defined = {}) =>
        IF args.oldest \/ args.newest
        THEN /\ selected_event = 0
             /\ pc = "done" =>
                   /\ stderr = <<ErrLine("could_not_select", 0)>>
                   /\ FetchingOnly
                   /\ exit_status = 0
        ELSE /\ selected_event \in 1..Len(events_to_process)
             /\ pc = "done" =>
                   /\ stderr = <<>>
                   /\ stdout[Len(stdout)].kind = "text_line"
                   /\ exit_status = 0

C9_Witness ==
    /\ pc = "done"
    /\ args.newest
    /\ Len(events_to_process) = 2
    /\ Defined = {}
    /\ stderr = <<ErrLine("could_not_select", 0)>>

\* C10: a run whose arguments parse sends exactly one GET and never sends
\* it again; after a transport failure, a non-2xx status or a decode
\* failure the failure is reported once and the run ends with no later
\* step (decode, select, present) executed.
C10_OneRequestNoRetry ==
    /\ requests <= 1
    /\ (pc \in {"await", "check", "decode", "flatten", "empty", "select", "present"}
          \/ (pc = "done" /\ outcome # "usage")) => requests = 1
    /\ (pc = "done" /\ (Non2xx \/ outcome \in {"Err_send", "Err_json"})) =>
          /\ Len(stderr) = 1
          /\ ~decoded
          /\ events_to_process = <<>>
          /\ selected_event = 0
          /\ FetchingOnly

C10_Witness ==
    /\ pc = "done"
    /\ outcome = "Err_send"
    /\ requests = 1
    /\ Len(stderr) = 1

====
